---------------------------- MODULE Spec2Model ----------------------------
(***************************************************************************)
(* Model of maincode.py: the strike-zone dashboard.                        *)
(*                                                                         *)
(*   load_and_prepare_data -> aggregate_player_stats -> Dash callback      *)
(*   update_figure -> create_strikezone_figure                             *)
(*                                                                         *)
(* Numbers.  Plate coordinates are Python floats.  The code only compares  *)
(* them, so the model places them on an integer grid of 60000 positions    *)
(* per foot that keeps their order: a decimal coordinate d feet sits at    *)
(* 60000*d, and the odd positions are the doubles between them that the    *)
(* code itself computes (see x_bins).  ba and xba are in thousandths.      *)
(***************************************************************************)
EXTENDS Integers, Sequences, FiniteSets

\* ------------------------------------------------------------------ bounds

\* Longest input table (rows of the CSV file).
MaxRows == 2

\* How many grid positions on each side of a boundary the probe inputs of
\* assign_zone cover.
Margin == 1

\* ------------------------------------------------------- program constants

\* FILE_NAME = 'MLBData2024.csv': the path main() loads, as name and extension.
FILE_NAME == [stem |-> "MLBData2024", ext |-> "csv"]

\* LEFT, RIGHT = -0.7083, 0.7083 feet; BOTTOM, TOP = 1.5, 3.5 feet.
LEFT == -42498
RIGHT == 42498
BOTTOM == 90000
TOP == 210000

\* A missing cell (pandas NaN / None).  It lies outside every coordinate and
\* every metric of the model; the code tests it with pd.isna / dropna before
\* any comparison.
NaN == -999999
NoName == "<NA>"

\* pd.isna on a numeric cell.
isna(v) == v = NaN

\* The value of `a + k*(b - a)/3` as Python computes it in IEEE-754 doubles,
\* for the two spans of the program.  The exact thirds are -0.2361, 0.2361,
\* 13/6 and 17/6 feet; the doubles computed are -0.23610000000000003,
\* 0.23609999999999998, 2.1666666666666665 and 2.833333333333333, each the
\* double immediately below the exact third (and, on the x axis, immediately
\* below the double that the decimal text "-0.2361" / "0.2361" parses to).
\* On the grid that is one position below the exact third.
FloatThird(a, b, k) == a + (k * (b - a)) \div 3 - 1

x_bins == <<LEFT, FloatThird(LEFT, RIGHT, 1), FloatThird(LEFT, RIGHT, 2), RIGHT>>
z_bins == <<BOTTOM, FloatThird(BOTTOM, TOP, 1), FloatThird(BOTTOM, TOP, 2), TOP>>

\* ------------------------------------------------------------- assign_zone

\* Mutant: the grid comparisons are strict, so a tie goes to the higher bucket.
assign_zone_strict(row) ==
    LET x == row.plate_x
        z == row.plate_z
    IN  IF isna(x) \/ isna(z) THEN -1
        ELSE IF x < LEFT \/ x > RIGHT \/ z < BOTTOM \/ z > TOP THEN 0
        ELSE LET col == IF x < x_bins[2] THEN 1
                        ELSE IF x < x_bins[3] THEN 2 ELSE 3
                 row_num == IF z < z_bins[2] THEN 1
                            ELSE IF z < z_bins[3] THEN 2 ELSE 3
             IN  (row_num - 1) * 3 + col

\* Mutant: the rectangle test excludes its own edges.
assign_zone_open(row) ==
    LET x == row.plate_x
        z == row.plate_z
    IN  IF isna(x) \/ isna(z) THEN -1
        ELSE IF x <= LEFT \/ x >= RIGHT \/ z <= BOTTOM \/ z >= TOP THEN 0
        ELSE LET col == IF x <= x_bins[2] THEN 1
                        ELSE IF x <= x_bins[3] THEN 2 ELSE 3
                 row_num == IF z <= z_bins[2] THEN 1
                            ELSE IF z <= z_bins[3] THEN 2 ELSE 3
             IN  (row_num - 1) * 3 + col

\* Mutant: the outside test runs before the missing-value test (a comparison
\* with NaN is false).
assign_zone_swapped(row) ==
    LET x == row.plate_x
        z == row.plate_z
    IN  IF (~isna(x) /\ (x < LEFT \/ x > RIGHT))
           \/ (~isna(z) /\ (z < BOTTOM \/ z > TOP)) THEN 0
        ELSE IF isna(x) \/ isna(z) THEN -1
        ELSE LET col == IF x <= x_bins[2] THEN 1
                        ELSE IF x <= x_bins[3] THEN 2 ELSE 3
                 row_num == IF z <= z_bins[2] THEN 1
                            ELSE IF z <= z_bins[3] THEN 2 ELSE 3
             IN  (row_num - 1) * 3 + col

\* assign_zone(row).  Python's x_bins[i] is x_bins[i+1] here (TLA+ sequences
\* start at 1).
assign_zone(row) ==
    LET x == row.plate_x
        z == row.plate_z
    IN  IF isna(x) \/ isna(z) THEN -1
        ELSE IF x < LEFT \/ x > RIGHT \/ z < BOTTOM \/ z > TOP THEN 0
        ELSE LET col == IF x <= x_bins[2] THEN 1
                        ELSE IF x <= x_bins[3] THEN 2 ELSE 3
                 row_num == IF z <= z_bins[2] THEN 1
                            ELSE IF z <= z_bins[3] THEN 2 ELSE 3
             IN  (row_num - 1) * 3 + col

\* ------------------------------------------------------------------ tables

\* The columns of the input the model tracks: the five the code reads and the
\* event label, which the code never reads.
AllCols == {"player_name", "plate_x", "plate_z", "ba", "xba", "events"}
TextCols == {"player_name", "events"}

\* Whether the cell v of column c holds a value (pandas notna).
notna(c, v) == IF c \in TextCols THEN v # NoName ELSE ~isna(v)

Missing(c) == IF c \in TextCols THEN NoName ELSE NaN

Range(s) == {s[i] : i \in DOMAIN s}

RECURSIVE Sum(_)
Sum(s) == IF s = <<>> THEN 0 ELSE Head(s) + Sum(Tail(s))

\* ------------------------------------------------- load_and_prepare_data

\* Mutant: 'ba' is not among the columns that must be non-null.
critical_cols_no_ba == <<"player_name", "plate_x", "plate_z", "xba">>

critical_cols == <<"player_name", "plate_x", "plate_z", "ba", "xba">>

\* df.dropna(subset=critical_cols): the rows, in order, whose critical cells
\* all hold a value.
dropna(df, subset) ==
    LET complete(r) == \A c \in Range(subset) : notna(c, r[c])
    IN  SelectSeq(df, complete)

\* df['zone'] = df.apply(assign_zone, axis=1): every row gets the column zone.
apply_assign_zone(df) ==
    [i \in DOMAIN df |->
        [c \in (DOMAIN df[i]) \cup {"zone"} |->
            IF c = "zone" THEN assign_zone(df[i]) ELSE df[i][c]]]

\* The outcome of a call: the exception raised ("none" when it returns) and
\* the table returned.
Raise(e) == [error |-> e, df |-> <<>>]
Return(df) == [error |-> "none", df |-> df]

\* Mutant: the existence test is inverted.
load_and_prepare_data_inverted(f) ==
    IF f.exists THEN Raise("FileNotFoundError") ELSE Return(<<>>)

\* Mutant: the zone filter is `> 0`, so pitches outside the strike zone go too.
load_and_prepare_data_inside_only(f) ==
    IF ~f.exists THEN Raise("FileNotFoundError")
    ELSE IF ~(Range(critical_cols) \subseteq f.columns) THEN Raise("KeyError")
    ELSE LET tagged == apply_assign_zone(dropna(f.rows, critical_cols))
             valid(r) == r.zone > 0
         IN  Return(SelectSeq(tagged, valid))

\* load_and_prepare_data(filename), f being the file at that path: whether it
\* exists, its extension, and the table pd.read_csv parses from it (its
\* columns and rows).  dropna raises KeyError when a column of `subset` is
\* not in the frame.
load_and_prepare_data(f) ==
    IF ~f.exists THEN Raise("FileNotFoundError")
    ELSE IF ~(Range(critical_cols) \subseteq f.columns) THEN Raise("KeyError")
    ELSE LET tagged == apply_assign_zone(dropna(f.rows, critical_cols))
             valid(r) == r.zone >= 0
         IN  Return(SelectSeq(tagged, valid))

\* ------------------------------------------------ aggregate_player_stats

\* The values of column c that are not null in the rows of df with this key.
group_values(df, p, z, c) ==
    LET member(r) == r.player_name = p /\ r.zone = z /\ notna(c, r[c])
        rows == SelectSeq(df, member)
    IN  [i \in DOMAIN rows |-> rows[i][c]]

\* aggfunc='mean': the mean of the non-null values, NaN when there is none.
\* Values are thousandths; the mean keeps three more decimal digits.
mean(vals) == IF vals = <<>> THEN NaN ELSE (Sum(vals) * 1000) \div Len(vals)

\* Mutant: counts the distinct values (nunique) instead of the values.
count_distinct(vals) == Cardinality(Range(vals))

\* aggfunc='count': the number of non-null values.
count(vals) == Len(vals)

\* df.groupby(['player_name', 'zone']).agg(...).reset_index(): one row for
\* each key that occurs (groupby leaves out null keys).  The rows carry their
\* key, so the frame is modelled as the set of its rows.
aggregate_player_stats(df) ==
    LET keys == {<<df[i].player_name, df[i].zone>> : i \in
                    {j \in DOMAIN df : notna("player_name", df[j].player_name)}}
    IN  {[player_name |-> k[1], zone |-> k[2],
          avg_ba |-> mean(group_values(df, k[1], k[2], "ba")),
          avg_xba |-> mean(group_values(df, k[1], k[2], "xba")),
          count |-> count(group_values(df, k[1], k[2], "ba"))] : k \in keys}

\* ---------------------------------------------- create_strikezone_figure

\* Mutant: the loop runs over the nine interior zones only.
zone_centers_interior == <<1, 2, 3, 4, 5, 6, 7, 8, 9>>

\* The keys of zone_centers in the order the loop visits them.
zone_centers == <<1, 2, 3, 4, 5, 6, 7, 8, 9, 0>>

\* f"{v:.3f}" of a mean: rounded to thousandths.
fmt3(v) == (v + 500) \div 1000

\* The two text lists of the figure, one entry per zone of zone_centers.  A
\* label is the sequence of its parts; the empty string is <<>>.
create_strikezone_figure(agg, player) ==
    LET player_data == {a \in agg : a.player_name = player}
        stats(zone) == {a \in player_data : a.zone = zone}
        first(zone) == CHOOSE a \in stats(zone) : TRUE
    IN  [text_avg |->
            [i \in DOMAIN zone_centers |->
                IF stats(zone_centers[i]) # {}
                THEN <<"AVG: ", fmt3(first(zone_centers[i]).avg_ba),
                       "<br>Pitches: ", first(zone_centers[i]).count>>
                ELSE <<>>],
         text_xba |->
            [i \in DOMAIN zone_centers |->
                IF stats(zone_centers[i]) # {}
                THEN <<"xAVG: ", fmt3(first(zone_centers[i]).avg_xba)>>
                ELSE <<>>]]

NoFigure == [text_avg |-> <<>>, text_xba |-> <<>>]

\* ------------------------------------------------------------------ inputs

PlayerNames == {"Judge, Aaron", "Soto, Juan", "Ohtani, Shohei"}

Row(p, x, z, ba, xba, ev) ==
    [player_name |-> p, plate_x |-> x, plate_z |-> z,
     ba |-> ba, xba |-> xba, events |-> ev]

\* Plate locations of the input rows: the corner (LEFT, TOP) of the
\* rectangle and a pitch one foot left of its centre, (-1.0, 2.5).
Places == {<<LEFT, TOP>>, <<-60000, 150000>>}

\* Rows without a missing cell.
FullRows ==
    {Row(p, xz[1], xz[2], b, 250 + b \div 2, "single") :
        p \in {"Judge, Aaron", "Soto, Juan"}, xz \in Places, b \in {0, 1000}}

\* Rows with exactly one missing cell, at the rectangle centre (0.0, 2.5).
NullRows ==
    {[Row("Judge, Aaron", 0, 150000, 1000, 750, "single") EXCEPT ![c] = Missing(c)] :
        c \in AllCols}

RowPool == FullRows \cup NullRows

\* The column sets of the input files: all columns, one critical column
\* absent, and no critical column at all.
ColumnSets ==
    {AllCols, AllCols \ {"ba"}, AllCols \ {"plate_x"}, {"events"}}

Tables(cols) ==
    UNION {[1..n -> {[c \in cols |-> r[c]] : r \in RowPool}] : n \in 0..MaxRows}

\* The extensions of the paths given to load_and_prepare_data: that of
\* FILE_NAME and one that is neither CSV nor spreadsheet.
Exts == {FILE_NAME.ext, "txt"}

\* What a path can hold: nothing, or a file pd.read_csv parses into a table.
Files ==
    {[exists |-> FALSE, ext |-> e, columns |-> {}, rows |-> <<>>] : e \in Exts}
    \cup
    UNION {{[exists |-> TRUE, ext |-> e, columns |-> cols, rows |-> t] :
                e \in Exts, t \in Tables(cols)} : cols \in ColumnSets}

\* Coordinates the probe calls of assign_zone use: a missing value and the
\* positions within Margin of each boundary, of the rectangle centre, of the
\* decimal thirds and of a point one foot outside each edge.
ProbeXs ==
    {NaN} \cup
    {p + d : p \in {LEFT - 17502, LEFT, x_bins[2], 0, x_bins[3], RIGHT,
                    RIGHT + 17502},
             d \in -Margin..Margin}
ProbeZs ==
    {NaN} \cup
    {p + d : p \in {BOTTOM - 30000, BOTTOM, z_bins[2], 150000, z_bins[3], TOP,
                    TOP + 30000},
             d \in -Margin..Margin}

\* ------------------------------------------------------------------- state

VARIABLES
    file,             \* what is at the path given to load_and_prepare_data
    pc,               \* where main() is: start, loaded, aggregated, serving, failed
    error,            \* the exception that ended main(), "none" otherwise
    df,               \* main's df: the table load_and_prepare_data returned
    df_agg,           \* main's df_agg: closed over by update_figure
    selected_player,  \* the value of the dropdown
    figure,           \* the figure update_figure returned last
    zone_arg,         \* the row of the last direct call of assign_zone
    zone_ret,         \* what that call returned
    zone_done         \* whether assign_zone was called

vars == <<file, pc, error, df, df_agg, selected_player, figure,
          zone_arg, zone_ret, zone_done>>

pipeline_vars == <<file, pc, error, df, df_agg, selected_player, figure>>
zone_vars == <<zone_arg, zone_ret, zone_done>>

ZoneIdle ==
    /\ zone_arg = [plate_x |-> NaN, plate_z |-> NaN]
    /\ zone_ret = -1
    /\ zone_done = FALSE

PipelineIdle(f) ==
    /\ file = f
    /\ pc = "start"
    /\ error = "none"
    /\ df = <<>>
    /\ df_agg = {}
    /\ selected_player = NoName
    /\ figure = NoFigure

Init == (\E f \in Files : PipelineIdle(f)) /\ ZoneIdle

\* ----------------------------------------------------------------- actions

\* main, line 150: df = load_and_prepare_data(...).  An exception ends main.
Load ==
    /\ pc = "start"
    /\ LET r == load_and_prepare_data(file)
       IN  /\ error' = r.error
           /\ df' = r.df
           /\ pc' = IF r.error = "none" THEN "loaded" ELSE "failed"
    /\ UNCHANGED <<file, df_agg, selected_player, figure, zone_vars>>

\* main, lines 151-174: the aggregate table, the layout with the dropdown at
\* its default value, and the callback registered.
Aggregate ==
    /\ pc = "loaded"
    /\ df_agg' = aggregate_player_stats(df)
    /\ selected_player' = "Judge, Aaron"
    /\ pc' = "aggregated"
    /\ UNCHANGED <<file, error, df, figure, zone_vars>>

\* Mutant: the callback keeps only the selected player's rows in df_agg.
update_figure_narrowing(player) ==
    /\ df_agg' = {a \in df_agg : a.player_name = player}
    /\ figure' = create_strikezone_figure(df_agg', player)

\* update_figure(selected_player): the body of the callback.
update_figure(player) ==
    /\ figure' = create_strikezone_figure(df_agg, player)
    /\ df_agg' = df_agg

\* main, line 176: app.run; the page loads and Dash calls the callback with
\* the dropdown's initial value.
Serve ==
    /\ pc = "aggregated"
    /\ update_figure(selected_player)
    /\ pc' = "serving"
    /\ UNCHANGED <<file, error, df, selected_player, zone_vars>>

\* The dropdown's value changes and Dash calls the callback with it.  The
\* value comes from the client: it may be a name with no row in df_agg.
Select ==
    /\ pc = "serving"
    /\ \E player \in PlayerNames :
          /\ selected_player' = player
          /\ update_figure(player)
    /\ UNCHANGED <<file, pc, error, df, zone_vars>>

Next == Load \/ Aggregate \/ Serve \/ Select

Spec == Init /\ [][Next]_vars

\* A direct call assign_zone(row), the row being any pair of probe
\* coordinates.
InitZone ==
    /\ PipelineIdle([exists |-> FALSE, ext |-> FILE_NAME.ext, columns |-> {}, rows |-> <<>>])
    /\ \E x \in ProbeXs, z \in ProbeZs : zone_arg = [plate_x |-> x, plate_z |-> z]
    /\ zone_ret = -1
    /\ zone_done = FALSE

CallAssignZone ==
    /\ ~zone_done
    /\ zone_ret' = assign_zone(zone_arg)
    /\ zone_done' = TRUE
    /\ UNCHANGED <<zone_arg, pipeline_vars>>

NextZone == CallAssignZone

SpecZone == InitZone /\ [][NextZone]_vars

\* ------------------------------------------------------------------ claims

Critical == {"player_name", "plate_x", "plate_z", "ba", "xba"}

Loaded == pc \in {"loaded", "aggregated", "serving"}

InRect(x, z) == LEFT <= x /\ x <= RIGHT /\ BOTTOM <= z /\ z <= TOP

\* The table without its zone column.
StripZone(t) == [i \in DOMAIN t |-> [c \in (DOMAIN t[i]) \ {"zone"} |-> t[i][c]]]

\* The rows of t, in order, whose cells in the columns cols all hold a value.
NonNullRows(t, cols) ==
    LET keep(r) == \A c \in cols : notna(c, r[c])
    IN  SelectSeq(t, keep)

\* C1: for present x in [LEFT, RIGHT] and z in [BOTTOM, TOP], assign_zone
\* returns (row-1)*3 + column, where column and row in 1..3 are the lowest
\* bucket whose upper cut (the value of LEFT + k*(RIGHT-LEFT)/3, and of
\* BOTTOM + k*(TOP-BOTTOM)/3, as the program computes it) is >= the
\* coordinate: a coordinate equal to a cut goes to the lower bucket; and the
\* centre (0.0, 2.5) gets zone 5.
Thm_C1 ==
    LET x == zone_arg.plate_x
        z == zone_arg.plate_z
        XCut(k) == IF k = 3 THEN RIGHT ELSE FloatThird(LEFT, RIGHT, k)
        ZCut(k) == IF k = 3 THEN TOP ELSE FloatThird(BOTTOM, TOP, k)
    IN  (zone_done /\ ~isna(x) /\ ~isna(z) /\ InRect(x, z)) =>
            /\ \E col \in 1..3, row \in 1..3 :
                  /\ zone_ret = (row - 1) * 3 + col
                  /\ x <= XCut(col) /\ (col > 1 => x > XCut(col - 1))
                  /\ z <= ZCut(row) /\ (row > 1 => z > ZCut(row - 1))
            /\ (x = 0 /\ z = 150000) => zone_ret = 5

\* C1 witness: x on the first x cut and z on the second z cut: column 1, row 2.
Wit_C1 ==
    /\ zone_done
    /\ zone_arg.plate_x = FloatThird(LEFT, RIGHT, 1)
    /\ zone_arg.plate_z = FloatThird(BOTTOM, TOP, 2)
    /\ zone_ret = 4

\* C2: for present coordinates assign_zone returns 0 exactly when x < LEFT,
\* x > RIGHT, z < BOTTOM or z > TOP; (-1.0, 2.5) gets 0; a point of the
\* rectangle that lies on one of its outer edges gets a zone in 1..9.
Thm_C2 ==
    LET x == zone_arg.plate_x
        z == zone_arg.plate_z
    IN  (zone_done /\ ~isna(x) /\ ~isna(z)) =>
            /\ zone_ret = 0 <=> (x < LEFT \/ x > RIGHT \/ z < BOTTOM \/ z > TOP)
            /\ (x = -60000 /\ z = 150000) => zone_ret = 0
            /\ (InRect(x, z) /\ (x \in {LEFT, RIGHT} \/ z \in {BOTTOM, TOP}))
                  => zone_ret \in 1..9

\* C2 witness: the corner (RIGHT, BOTTOM) is inside and gets zone 3.
Wit_C2 ==
    /\ zone_done
    /\ zone_arg.plate_x = RIGHT
    /\ zone_arg.plate_z = BOTTOM
    /\ zone_ret = 3

\* C3: a missing x or z gives -1 whatever the other coordinate is, and every
\* result of assign_zone is in -1..9.
Thm_C3 ==
    zone_done =>
        /\ (isna(zone_arg.plate_x) \/ isna(zone_arg.plate_z)) => zone_ret = -1
        /\ zone_ret \in -1..9

\* C3 witness: x missing and z above TOP gives -1, not 0.
Wit_C3 ==
    /\ zone_done
    /\ isna(zone_arg.plate_x)
    /\ ~isna(zone_arg.plate_z) /\ zone_arg.plate_z > TOP
    /\ zone_ret = -1

\* C4: the aggregates hold one row for (player, zone) exactly when the loaded
\* table has a row with that player and zone, and its count is the number of
\* those rows.
Thm_C4 ==
    pc \in {"aggregated", "serving"} =>
        \A p \in PlayerNames \cup {NoName}, z \in -1..9 :
            LET n == Cardinality({i \in DOMAIN df :
                        df[i].player_name = p /\ df[i].zone = z})
                hits == {a \in df_agg : a.player_name = p /\ a.zone = z}
            IN  /\ Cardinality(hits) = IF n >= 1 THEN 1 ELSE 0
                /\ \A a \in hits : a.count = n

\* C4 witness: a group of two rows.
Wit_C4 ==
    /\ pc = "serving"
    /\ \E a \in df_agg : a.count = 2

\* C5 as stated: the loader never fails on an existing file, and keeps exactly
\* the rows whose player name, coordinates and event label, as far as those
\* columns exist, are non-null.
CE_C5 ==
    (pc # "start" /\ file.exists) =>
        /\ pc # "failed"
        /\ StripZone(df) = NonNullRows(file.rows,
              {"player_name", "plate_x", "plate_z", "events"} \cap file.columns)

\* C5 amended: when the input has the columns player_name, plate_x, plate_z,
\* ba and xba, the loader keeps exactly the rows in which these five are all
\* non-null (the event label plays no part); when one of the five is absent
\* the loader fails with KeyError.
Thm_C5 ==
    (pc # "start" /\ file.exists) =>
        IF Critical \subseteq file.columns
        THEN /\ Loaded
             /\ StripZone(df) = NonNullRows(file.rows, Critical)
        ELSE pc = "failed" /\ error = "KeyError" /\ df = <<>>

\* C5 witness: of two input rows one is kept although its event label is
\* missing, the other is dropped.
Wit_C5 ==
    /\ pc = "loaded"
    /\ Len(file.rows) = 2 /\ Len(df) = 1
    /\ df[1].events = NoName

\* C6 as stated: a missing path fails with FileNotFoundError and an existing
\* path whose extension is neither CSV nor spreadsheet fails with
\* UnsupportedFormatError, nothing being read or aggregated.
CE_C6 ==
    pc # "start" =>
        /\ ~file.exists => (pc = "failed" /\ error = "FileNotFoundError")
        /\ (file.exists /\ file.ext \notin {"csv", "xls", "xlsx"})
              => (pc = "failed" /\ error = "UnsupportedFormatError")
        /\ pc = "failed" => (df = <<>> /\ df_agg = {} /\ figure = NoFigure)

\* C6 amended: a missing path fails with FileNotFoundError before any row is
\* read, tagged or aggregated; the extension is not looked at: an existing
\* file is read as CSV whatever its extension, and no UnsupportedFormatError
\* is raised.
Thm_C6 ==
    pc # "start" =>
        /\ ~file.exists => (pc = "failed" /\ error = "FileNotFoundError")
        /\ file.exists => error \notin {"FileNotFoundError", "UnsupportedFormatError"}
        /\ (file.exists /\ Critical \subseteq file.columns)
              => (Loaded /\ Len(df) = Len(NonNullRows(file.rows, Critical)))
        /\ pc = "failed" => (df = <<>> /\ df_agg = {} /\ figure = NoFigure)

\* C6 witness: the run has failed on a missing path.
Wit_C6 ==
    /\ pc = "failed"
    /\ ~file.exists
    /\ error = "FileNotFoundError"

\* C7: once the callback has run, for whatever player, nothing was raised and
\* the figure has ten AVG and ten xAVG labels, the label of zone k (at place k,
\* zone 0 at place 10) being non-empty exactly when the aggregates have a row
\* for (selected player, k).
Thm_C7 ==
    pc = "serving" =>
        /\ error = "none"
        /\ Len(figure.text_avg) = 10
        /\ Len(figure.text_xba) = 10
        /\ \A k \in 0..9 :
              LET i == IF k = 0 THEN 10 ELSE k
                  has == \E a \in df_agg :
                            a.player_name = selected_player /\ a.zone = k
              IN  /\ figure.text_avg[i] # <<>> <=> has
                  /\ figure.text_xba[i] # <<>> <=> has

\* C7 witness: the aggregates are not empty, the selected player has no row
\* in them, and all twenty labels are empty.
Wit_C7 ==
    /\ pc = "serving"
    /\ df_agg # {}
    /\ \A a \in df_agg : a.player_name # selected_player
    /\ \A i \in 1..10 : figure.text_avg[i] = <<>> /\ figure.text_xba[i] = <<>>

\* C9: a call of the callback leaves the aggregate table as it was, and the
\* figure it returns is the one built from the table aggregated at start-up
\* and the player now selected, whatever was selected before.
Thm_C9 ==
    [][pc' = "serving" =>
          /\ df_agg' = df_agg
          /\ df_agg' = aggregate_player_stats(df)
          /\ figure' = create_strikezone_figure(aggregate_player_stats(df),
                                                selected_player')]_vars

\* C9 witness: a player other than the default is selected, both that player
\* and the default have rows, and the figure shows a label.
Wit_C9 ==
    /\ pc = "serving"
    /\ selected_player = "Soto, Juan"
    /\ \E a \in df_agg : a.player_name = "Judge, Aaron"
    /\ \E i \in 1..10 : figure.text_avg[i] # <<>>

\* C10: every row of the loaded table has a zone in 0..9 and non-null player
\* name, plate_x, plate_z, ba and xba; no row gets zone -1 when the zones are
\* assigned; every complete input row outside the strike zone is in the
\* loaded table with zone 0; every aggregate has a zone in 0..9 and a count
\* of at least 1.
Thm_C10 ==
    Loaded =>
        /\ \A i \in DOMAIN df :
              /\ df[i].zone \in 0..9
              /\ \A c \in Critical : notna(c, df[i][c])
        /\ \A i \in DOMAIN file.rows :
              LET r == file.rows[i]
              IN  /\ (\A c \in Critical : notna(c, r[c])) => assign_zone(r) # -1
                  /\ ((\A c \in Critical : notna(c, r[c]))
                        /\ ~InRect(r.plate_x, r.plate_z))
                       => \E j \in DOMAIN df :
                             StripZone(df)[j] = r /\ df[j].zone = 0
        /\ \A a \in df_agg : a.zone \in 0..9 /\ a.count >= 1

\* C10 witness: the input has a row with a missing coordinate, and the
\* aggregates have a row for zone 0.
Wit_C10 ==
    /\ pc = "serving"
    /\ \E i \in DOMAIN file.rows : isna(file.rows[i].plate_x)
    /\ \E a \in df_agg : a.zone = 0

=============================================================================
